---- MODULE Spec2Model ----
(***************************************************************************)
(* A model of the wgpu-rs wrapper layer (src/src/lib.rs): the per-buffer   *)
(* mapped-range tracker (MapContext) driven through the Buffer /           *)
(* BufferSlice / BufferView API, the command-recording wrappers            *)
(* (CommandEncoder, RenderPass, ComputePass, CommandBuffer, Queue::submit) *)
(* and the Drop implementations of the resource wrappers.                  *)
(*                                                                         *)
(* A failed assert!/expect() is a Rust panic: the calling thread starts    *)
(* unwinding (thread::panicking() is true) and runs the destructors of the *)
(* values owned by the frames it leaves, until catch_unwind stops it.  A   *)
(* panic raised by a destructor while unwinding aborts the process.        *)
(***************************************************************************)
EXTENDS Integers, Sequences, FiniteSets, Bags, TLC

\* ------------------------------------------------------------------ bounds

\* Largest buffer size and largest address a slice expression names.
MaxSize == 2

\* Most calls one run makes on the buffer.
MaxCalls == 5

\* BufferAddress is u64; the model's word is Modulus values wide, and every
\* sum and difference of addresses is taken modulo it.
Modulus == 16

\* ------------------------------------------------------------------- state

VARIABLES
    mc,         \* Buffer.map_context: the MapContext behind the Mutex
    views,      \* the live BufferView / BufferViewMut values: the bag of their slices
    last,       \* the call the last step made on the buffer and its outcome
    calls,      \* the calls made on the buffer so far
    script,     \* the caller's place in a fixed call sequence, and its arguments
    panicking,  \* thread::panicking(): the thread is unwinding
    aborted,    \* a destructor panicked while unwinding: the process is gone
    encoder,    \* each CommandEncoder: "absent", "recording", "finished", "dropped"
    pass,       \* each RenderPass / ComputePass value
    cmdbuf,     \* each CommandBuffer: its state and its id: Option<CommandBufferId>
    backend,    \* per encoder handle, the calls the backend has received
    enc_fwd,    \* the backend call the last recording step forwarded
    res,        \* each resource wrapper: its kind, its owned flag, its state
    drops,      \* per resource handle, the drop calls the backend has received
    swapchain,  \* each SwapChain: its state and the surface it targets
    frame,      \* each SwapChainTexture the backend's reply was wrapped in
    acquired,   \* per surface, the backend's record of an image acquired and not presented
    sc_last,    \* the last swap-chain call and its outcome
    mapping,    \* the call history of the buffer: is a mapping outstanding
    strong,     \* the strong count of the Arc<C> that Instance::new made
    holder,     \* each wrapper derived from the Instance: its kind, its state, its Arc
    tpc,        \* each thread sharing the buffer: where it is in unmap / map_async
    locklog,    \* the MapContext transitions, in the order the lock was taken
    blog,       \* the buffer calls the backend received, in order
    usage,      \* Buffer.usage: the declared BufferUsage flags
    vmut        \* each BufferViewMut: its state, its slice, its readable flag

bufVars == <<mc, views, last, calls>>

threadVars == <<panicking, aborted>>

encVars == <<encoder, pass, cmdbuf, backend, enc_fwd>>

resVars == <<res, drops>>

scVars == <<swapchain, frame, acquired, sc_last>>

ctxVars == <<strong, holder>>

raceVars == <<tpc, locklog, blog>>

viewVars == <<usage, vmut>>

moreVars == <<ctxVars, raceVars, viewVars>>

vars == <<bufVars, script, threadVars, encVars, resVars, scVars, mapping, moreVars>>

\* ------------------------------------------------- Option<BufferSize>, Range

\* Option<BufferSize>: BufferSize is NonZeroU64, so None is the one value no
\* Some(s) takes.
None == 0

WrapAdd(a, b) == (a + b) % Modulus

WrapSub(a, b) == (a - b + Modulus) % Modulus

\* BufferSize::new(n): None for 0, Some(n) otherwise.
BufferSize_new(n) == IF n = 0 THEN None ELSE n

Range(a, b) == [start |-> a, end |-> b]

ZeroRange == Range(0, 0)

\* A RangeBounds value: its start_bound() and end_bound().
Bounds(sk, sv, ek, ev) == [sk |-> sk, sv |-> sv, ek |-> ek, ev |-> ev]

range_offset(bounds) ==
    CASE bounds.sk = "Included" -> bounds.sv
      [] bounds.sk = "Excluded" -> WrapAdd(bounds.sv, 1)
      [] bounds.sk = "Unbounded" -> 0

range_size(bounds, offset) ==
    CASE bounds.ek = "Included" -> BufferSize_new(WrapSub(WrapAdd(bounds.ev, 1), offset))
      [] bounds.ek = "Excluded" -> BufferSize_new(WrapSub(bounds.ev, offset))
      [] bounds.ek = "Unbounded" -> None

range_to_offset_size(bounds) ==
    LET offset == range_offset(bounds)
    IN  [offset |-> offset, size |-> range_size(bounds, offset)]

\* Buffer::slice: the BufferSlice of a range expression.
Buffer_slice(bounds) == range_to_offset_size(bounds)

\* ------------------------------------------------------------- MapContext

MapContext_new(total_size) ==
    [total_size |-> total_size, initial_range |-> ZeroRange, sub_ranges |-> <<>>]

\* The end point add, remove resolve a size to.
resolve_end(m, offset, size) ==
    IF size # None THEN WrapAdd(offset, size) ELSE m.initial_range.end

\* reset: the range is cleared first, the assert comes second.
reset_range(m) == [m EXCEPT !.initial_range = ZeroRange]

\* A reset that tests the mapping instead of the open views.
reset_check_mapping(m) == m.initial_range # ZeroRange

reset_check(m) == m.sub_ranges = <<>>

MapContext_reset(m) == [mc |-> reset_range(m), ok |-> reset_check(m)]

\* add's first assert.
add_in_range(m, offset, end) ==
    m.initial_range.start <= offset /\ end <= m.initial_range.end

\* A loop that compares against each sub-range's end alone.
add_disjoint_ends(m, offset, end) ==
    \A i \in DOMAIN m.sub_ranges :
        end <= m.sub_ranges[i].end \/ offset >= m.sub_ranges[i].end

\* add's loop of asserts over the open sub-ranges.
add_disjoint(m, offset, end) ==
    \A i \in DOMAIN m.sub_ranges :
        end <= m.sub_ranges[i].start \/ offset >= m.sub_ranges[i].end

MapContext_add(m, offset, size) ==
    LET end == resolve_end(m, offset, size)
    IN  IF add_in_range(m, offset, end) /\ add_disjoint(m, offset, end)
        THEN [mc |-> [m EXCEPT !.sub_ranges = Append(@, Range(offset, end))],
              ok |-> TRUE, end |-> end]
        ELSE [mc |-> m, ok |-> FALSE, end |-> end]

\* Iterator::position: the first index holding r, 0 when there is none.
position(ranges, r) ==
    LET hits == {i \in DOMAIN ranges : ranges[i] = r}
    IN  IF hits = {} THEN 0 ELSE CHOOSE i \in hits : \A j \in hits : i <= j

\* Vec::swap_remove: the last element takes the removed one's place.
swap_remove(ranges, index) ==
    LET n == Len(ranges)
    IN  [i \in 1..(n - 1) |-> IF i = index THEN ranges[n] ELSE ranges[i]]

\* A remove that lets a missing range pass.
MapContext_remove_lenient(m, offset, size) ==
    LET end == resolve_end(m, offset, size)
        index == position(m.sub_ranges, Range(offset, end))
    IN  IF index = 0
        THEN [mc |-> m, ok |-> TRUE]
        ELSE [mc |-> [m EXCEPT !.sub_ranges = swap_remove(@, index)], ok |-> TRUE]

MapContext_remove(m, offset, size) ==
    LET end == resolve_end(m, offset, size)
        index == position(m.sub_ranges, Range(offset, end))
    IN  IF index = 0
        THEN [mc |-> m, ok |-> FALSE]
        ELSE [mc |-> [m EXCEPT !.sub_ranges = swap_remove(@, index)], ok |-> TRUE]

\* ------------------------------------------------- the Buffer state machine

\* The record of a call: fwd names the backend operation it forwarded.
Call(op, ok, fwd) == [op |-> op, ok |-> ok, fwd |-> fwd]

\* One more call, while the run has calls left.
Step == calls < MaxCalls /\ calls' = calls + 1

BoundKinds == {"Included", "Excluded", "Unbounded"}

\* The range expressions a caller slices with, over the addresses 0..MaxSize.
AllBounds ==
    {Bounds(sk, sv, ek, ev) :
        sk \in BoundKinds, sv \in 0..MaxSize, ek \in BoundKinds, ev \in 0..MaxSize}

\* A range expression over the addresses 0..MaxSize whose start does not lie
\* behind its end: the subtraction of range_to_offset_size does not wrap.
WellFormed(bounds) ==
    /\ bounds.sk = "Unbounded" => bounds.sv = 0
    /\ bounds.ek = "Unbounded" => bounds.ev = 0
    /\ range_offset(bounds) <= MaxSize
    /\ bounds.ek = "Included" =>
           range_offset(bounds) <= bounds.ev + 1 /\ bounds.ev + 1 <= MaxSize
    /\ bounds.ek = "Excluded" => range_offset(bounds) <= bounds.ev

SliceBounds == {bounds \in AllBounds : WellFormed(bounds)}

\* The BufferSlice values Buffer::slice makes of them.
Slices == {Buffer_slice(bounds) : bounds \in SliceBounds}

\* A create_buffer that forgets mapped_at_creation.
Device_create_buffer_unmapped(size, mapped_at_creation) == MapContext_new(size)

\* Device::create_buffer: the MapContext of a new buffer.
Device_create_buffer(size, mapped_at_creation) ==
    IF mapped_at_creation
    THEN [MapContext_new(size) EXCEPT !.initial_range = Range(0, size)]
    ELSE MapContext_new(size)

\* A panic: the thread starts to unwind, or, already unwinding, aborts.
Raise ==
    IF panicking
    THEN aborted' = TRUE /\ panicking' = panicking
    ELSE panicking' = TRUE /\ aborted' = aborted

Running == ~panicking /\ ~aborted

\* The Context call is made before the MapContext check.
Forwarded_unchecked(ok, call) == call

\* The Context call of a handler comes after its MapContext check: a failed
\* assert unwinds out of the handler before the call is reached.
Forwarded(ok, call) == IF ok THEN call ELSE "none"

\* BufferSlice::get_mapped_range / get_mapped_range_mut.
BufferSlice_get_mapped_range(slice) ==
    LET r == MapContext_add(mc, slice.offset, slice.size)
    IN  /\ Running
        /\ Step
        /\ mc' = r.mc
        /\ last' = Call("get_mapped_range", r.ok,
                        Forwarded(r.ok, "buffer_get_mapped_range"))
        /\ IF r.ok
           THEN /\ views' = views (+) SetToBag({slice})
                /\ UNCHANGED threadVars
           ELSE /\ views' = views
                /\ Raise

GetMappedRange ==
    /\ \E slice \in Slices : BufferSlice_get_mapped_range(slice)
    /\ UNCHANGED <<script, encVars, resVars, scVars, mapping, moreVars>>

\* Drop for BufferView / BufferViewMut: no thread::panicking() test.
BufferView_drop(slice) ==
    LET r == MapContext_remove(mc, slice.offset, slice.size)
    IN  /\ ~aborted
        /\ Step
        /\ mc' = r.mc
        /\ views' = views (-) SetToBag({slice})
        /\ last' = Call("drop_view", r.ok, "none")
        /\ IF r.ok THEN UNCHANGED threadVars ELSE Raise

DropView ==
    /\ \E slice \in BagToSet(views) : BufferView_drop(slice)
    /\ UNCHANGED <<script, encVars, resVars, scVars, mapping, moreVars>>

\* Buffer::unmap.
Buffer_unmap ==
    LET r == MapContext_reset(mc)
    IN  /\ Running
        /\ Step
        /\ mc' = r.mc
        /\ views' = views
        /\ last' = Call("unmap", r.ok, Forwarded(r.ok, "buffer_unmap"))
        /\ IF r.ok THEN UNCHANGED threadVars ELSE Raise

\* map_async's assert_eq!(mc.initial_range, 0..0).
map_async_check(m) == m.initial_range = ZeroRange

\* The end point map_async resolves a size to.
map_async_end(m, slice) ==
    IF slice.size # None THEN WrapAdd(slice.offset, slice.size) ELSE m.total_size

\* BufferSlice::map_async.
BufferSlice_map_async(slice) ==
    /\ Running
    /\ Step
    /\ views' = views
    /\ last' = Call("map_async", map_async_check(mc),
                    Forwarded(map_async_check(mc), "buffer_map_async"))
    /\ IF map_async_check(mc)
       THEN /\ mc' = [mc EXCEPT !.initial_range =
                          Range(slice.offset, map_async_end(mc, slice))]
            /\ UNCHANGED threadVars
       ELSE /\ mc' = mc
            /\ Raise

MapAsync ==
    /\ \E slice \in Slices : BufferSlice_map_async(slice)
    /\ UNCHANGED <<script, encVars, resVars, scVars, mapping, moreVars>>

\* std::panic::catch_unwind: the unwinding stops at the frame that catches.
CatchUnwind ==
    /\ panicking /\ ~aborted
    /\ Step
    /\ panicking' = FALSE
    /\ aborted' = aborted
    /\ last' = Call("catch_unwind", TRUE, "none")
    /\ UNCHANGED <<mc, views>>

Unmap == Buffer_unmap /\ UNCHANGED <<script, encVars, resVars, scVars, mapping, moreVars>>

Catch == CatchUnwind /\ UNCHANGED <<script, encVars, resVars, scVars, mapping, moreVars>>

\* A panic raised by anything else the thread runs: a backend that rejects a
\* call, the caller's own code.
Panic ==
    /\ Running
    /\ panicking' = TRUE
    /\ aborted' = aborted

\* catch_unwind, seen from the wrappers that keep no call record.
Recover ==
    /\ panicking /\ ~aborted
    /\ panicking' = FALSE
    /\ aborted' = aborted

\* ------------------------------------------------------- command recording

\* Most CommandEncoder values a run creates, and most passes it opens.
MaxEncoders == 2

MaxPasses == 2

Encoders == 1..MaxEncoders

Passes == 1..MaxPasses

NoPass == [state |-> "absent", enc |-> 0, kind |-> "none", ends |-> <<>>, unwound |-> FALSE]

NoCalls == [begin |-> 0, finish |-> 0, submit |-> 0, drop |-> 0]

NoFwd == [op |-> "none", enc |-> 0, ids |-> <<>>]

Fwd(op, e) == [op |-> op, enc |-> e, ids |-> <<>>]

\* RenderPass.parent / ComputePass.parent: &'a mut CommandEncoder.  While the
\* pass value lives, the encoder is exclusively borrowed and no other use of
\* it compiles.
Borrowed(e) == \E p \in Passes : pass[p].state = "open" /\ pass[p].enc = e

\* A pass that held no exclusive borrow would leave the encoder usable.
CanUse_unborrowed(e) == encoder[e] = "recording"

\* A use of encoder e through &mut self or self.
CanUse(e) == encoder[e] = "recording" /\ ~Borrowed(e)

\* Device::create_command_encoder.
Device_create_command_encoder(e) ==
    /\ Running
    /\ encoder[e] = "absent"
    /\ \A d \in Encoders : d < e => encoder[d] # "absent"
    /\ encoder' = [encoder EXCEPT ![e] = "recording"]
    /\ enc_fwd' = Fwd("device_create_command_encoder", e)
    /\ UNCHANGED <<pass, cmdbuf, backend, threadVars>>

CreateEncoder ==
    /\ \E e \in Encoders : Device_create_command_encoder(e)
    /\ UNCHANGED <<bufVars, script, resVars, scVars, mapping, moreVars>>

\* The backend call begin_render_pass / begin_compute_pass makes.
BeginOp(kind) ==
    IF kind = "render"
    THEN "command_encoder_begin_render_pass"
    ELSE "command_encoder_begin_compute_pass"

\* A destructor pasted from RenderPass into ComputePass unchanged.
EndOp_pasted(kind) == "command_encoder_end_render_pass"

\* The backend call the pass's destructor makes.
EndOp(kind) ==
    IF kind = "render"
    THEN "command_encoder_end_render_pass"
    ELSE "command_encoder_end_compute_pass"

\* CommandEncoder::begin_render_pass / begin_compute_pass.
CommandEncoder_begin_pass(e, p, kind) ==
    /\ Running
    /\ CanUse(e)
    /\ pass[p].state = "absent"
    /\ \A q \in Passes : q < p => pass[q].state # "absent"
    /\ pass' = [pass EXCEPT ![p] = [NoPass EXCEPT !.state = "open", !.enc = e, !.kind = kind]]
    /\ backend' = [backend EXCEPT ![e].begin = @ + 1]
    /\ enc_fwd' = Fwd(BeginOp(kind), e)
    /\ UNCHANGED <<encoder, cmdbuf, threadVars>>

BeginPass ==
    /\ \E e \in Encoders, p \in Passes, kind \in {"render", "compute"} :
           CommandEncoder_begin_pass(e, p, kind)
    /\ UNCHANGED <<bufVars, script, resVars, scVars, mapping, moreVars>>

\* Drop for RenderPass / ComputePass: the end call, unless thread::panicking().
Pass_drop(p) ==
    /\ ~aborted
    /\ pass[p].state = "open"
    /\ IF ~panicking
       THEN /\ pass' = [pass EXCEPT ![p].state = "closed",
                                    ![p].ends = Append(@, EndOp(pass[p].kind))]
            /\ enc_fwd' = Fwd(EndOp(pass[p].kind), pass[p].enc)
       ELSE /\ pass' = [pass EXCEPT ![p].state = "closed", ![p].unwound = TRUE]
            /\ enc_fwd' = NoFwd
    /\ UNCHANGED <<encoder, cmdbuf, backend, threadVars>>

DropPass ==
    /\ \E p \in Passes : Pass_drop(p)
    /\ UNCHANGED <<bufVars, script, resVars, scVars, mapping, moreVars>>

\* The direct recording calls, by class: "copy" stands for
\* copy_buffer_to_buffer, copy_buffer_to_texture, copy_texture_to_buffer and
\* copy_texture_to_texture, "debug" for insert_debug_marker, push_debug_group
\* and pop_debug_group.  Each forwards one call with the encoder's id.
DirectOps == {"command_encoder_copy", "command_encoder_debug"}

CommandEncoder_record(e, op) ==
    /\ Running
    /\ CanUse(e)
    /\ enc_fwd' = Fwd(op, e)
    /\ UNCHANGED <<encoder, pass, cmdbuf, backend, threadVars>>

Record ==
    /\ \E e \in Encoders, op \in DirectOps : CommandEncoder_record(e, op)
    /\ UNCHANGED <<bufVars, script, resVars, scVars, mapping, moreVars>>

\* What finish(self) leaves of the encoder it consumes.
finish_consumes(e) == [encoder EXCEPT ![e] = "finished"]

\* CommandEncoder::finish.
CommandEncoder_finish(e) ==
    /\ Running
    /\ CanUse(e)
    /\ encoder' = finish_consumes(e)
    /\ cmdbuf' = [cmdbuf EXCEPT ![e] = [state |-> "live", id |-> "Some"]]
    /\ backend' = [backend EXCEPT ![e].finish = @ + 1]
    /\ enc_fwd' = Fwd("command_encoder_finish", e)
    /\ UNCHANGED <<pass, threadVars>>

Finish ==
    /\ \E e \in Encoders : CommandEncoder_finish(e)
    /\ UNCHANGED <<bufVars, script, resVars, scVars, mapping, moreVars>>

\* A CommandEncoder that goes out of scope unfinished: the type has no Drop.
CommandEncoder_drop(e) ==
    /\ ~aborted
    /\ encoder[e] = "recording" /\ ~Borrowed(e)
    /\ encoder' = [encoder EXCEPT ![e] = "dropped"]
    /\ enc_fwd' = NoFwd
    /\ UNCHANGED <<pass, cmdbuf, backend, threadVars>>

DropEncoder ==
    /\ \E e \in Encoders : CommandEncoder_drop(e)
    /\ UNCHANGED <<bufVars, script, resVars, scVars, mapping, moreVars>>

\* The command buffers a caller can hand to submit: values it still owns.
Live(c) == cmdbuf[c].state = "live"

\* The collections submit is called with: each CommandBuffer is moved in, so
\* none appears twice.
Submissions ==
    LET live == {c \in Encoders : Live(c)}
    IN  {<<>>} \cup {<<c>> : c \in live}
               \cup {cd \in live \X live : cd[1] # cd[2]}

InSeq(seq, c) == \E i \in DOMAIN seq : seq[i] = c

\* A submit that read the id through a reference would leave it in place.
submit_borrows(cb) == cb

\* What submit's closure leaves of a command buffer: comb.id.take(), then the
\* emptied comb is dropped.
submit_takes(cb) == [state |-> "submitted", id |-> "None"]

\* An iterator that yielded the caller's collection back to front.
submit_ids_reversed(cbs) == [i \in DOMAIN cbs |-> cbs[Len(cbs) + 1 - i]]

\* The iterator submit hands to queue_submit: into_iter().map(..) yields the
\* handle of the i-th CommandBuffer of the caller's collection as its i-th
\* item.  The handle of the command buffer of encoder c is c.
submit_ids(cbs) == [i \in DOMAIN cbs |-> cbs[i]]

\* A destructor that did not look at the id.
command_buffer_drop_forwards_emptied(cb) == ~panicking

\* Drop for CommandBuffer forwards command_buffer_drop when the thread is not
\* unwinding and the id is still there.
command_buffer_drop_forwards(cb) == ~panicking /\ cb.id = "Some"

\* Queue::submit: every id is taken and unwrapped, the emptied CommandBuffer
\* is dropped at the end of the closure, and the ids go to queue_submit.
\* unwrap() panics on a CommandBuffer whose id is gone.
Queue_submit(cbs) ==
    /\ Running
    /\ IF \A i \in DOMAIN cbs : cmdbuf[cbs[i]].id = "Some"
       THEN /\ cmdbuf' = [c \in Encoders |->
                             IF InSeq(cbs, c) THEN submit_takes(cmdbuf[c]) ELSE cmdbuf[c]]
            /\ backend' = [c \in Encoders |->
                              IF InSeq(cbs, c)
                              THEN [backend[c] EXCEPT
                                      !.submit = @ + 1,
                                      !.drop = IF command_buffer_drop_forwards(
                                                      submit_takes(cmdbuf[c]))
                                               THEN @ + 1 ELSE @]
                              ELSE backend[c]]
            /\ enc_fwd' = [Fwd("queue_submit", 0) EXCEPT !.ids = submit_ids(cbs)]
            /\ UNCHANGED threadVars
       ELSE /\ enc_fwd' = NoFwd
            /\ UNCHANGED <<cmdbuf, backend>>
            /\ Raise
    /\ UNCHANGED <<encoder, pass>>

Submit ==
    /\ \E cbs \in Submissions : Queue_submit(cbs)
    /\ UNCHANGED <<bufVars, script, resVars, scVars, mapping, moreVars>>

\* Drop for CommandBuffer.
CommandBuffer_drop(c) ==
    /\ ~aborted
    /\ Live(c)
    /\ cmdbuf' = [cmdbuf EXCEPT ![c].state = "dropped"]
    /\ IF command_buffer_drop_forwards(cmdbuf[c])
       THEN /\ backend' = [backend EXCEPT ![c].drop = @ + 1]
            /\ enc_fwd' = Fwd("command_buffer_drop", c)
       ELSE /\ backend' = backend
            /\ enc_fwd' = NoFwd
    /\ UNCHANGED <<encoder, pass, threadVars>>

DropCommandBuffer ==
    /\ \E c \in Encoders : CommandBuffer_drop(c)
    /\ UNCHANGED <<bufVars, script, resVars, scVars, mapping, moreVars>>

EncPanic ==
    /\ Panic
    /\ enc_fwd' = NoFwd
    /\ UNCHANGED <<encoder, pass, cmdbuf, backend, bufVars, script, resVars, scVars, mapping, moreVars>>

EncRecover ==
    /\ Recover
    /\ enc_fwd' = NoFwd
    /\ UNCHANGED <<encoder, pass, cmdbuf, backend, bufVars, script, resVars, scVars, mapping, moreVars>>

\* -------------------------------------------------------- resource wrappers

\* Most resource wrappers a run creates.
MaxObjects == 2

Objects == 1..MaxObjects

\* The wrappers with a Drop that releases a backend handle.
Kinds ==
    {"Buffer", "Texture", "TextureView", "Sampler", "BindGroup", "BindGroupLayout",
     "PipelineLayout", "ShaderModule", "RenderPipeline", "ComputePipeline",
     "RenderBundle", "Device"}

NoObject == [kind |-> "none", owned |-> FALSE, state |-> "absent", unwound |-> FALSE]

\* The Dispatch Contract operation each Drop implementation calls.
DropOp(kind) ==
    CASE kind = "Buffer" -> "buffer_drop"
      [] kind = "Texture" -> "texture_drop"
      [] kind = "TextureView" -> "texture_view_drop"
      [] kind = "Sampler" -> "sampler_drop"
      [] kind = "BindGroup" -> "bind_group_drop"
      [] kind = "BindGroupLayout" -> "bind_group_layout_drop"
      [] kind = "PipelineLayout" -> "pipeline_layout_drop"
      [] kind = "ShaderModule" -> "shader_module_drop"
      [] kind = "RenderPipeline" -> "render_pipeline_drop"
      [] kind = "ComputePipeline" -> "compute_pipeline_drop"
      [] kind = "RenderBundle" -> "render_bundle_drop"
      [] kind = "Device" -> "device_drop"
      [] kind = "CommandBuffer" -> "command_buffer_drop"
      [] kind = "RenderPass" -> "command_encoder_end_render_pass"
      [] kind = "ComputePass" -> "command_encoder_end_compute_pass"
      [] kind = "SwapChainTexture" -> "swap_chain_present"

\* A creating call (Device::create_*, Texture::create_view,
\* Adapter::request_device, RenderBundleEncoder::finish): the wrapper owns the
\* handle it is given.
Wrapper_create(o, kind) ==
    /\ Running
    /\ res[o].state = "absent"
    /\ \A n \in Objects : n < o => res[n].state # "absent"
    /\ res' = [res EXCEPT ![o] = [NoObject EXCEPT !.kind = kind, !.owned = TRUE,
                                                   !.state = "alive"]]
    /\ UNCHANGED <<drops, threadVars>>

Create ==
    /\ \E o \in Objects, kind \in Kinds : Wrapper_create(o, kind)
    /\ UNCHANGED <<bufVars, script, encVars, scVars, mapping, moreVars>>

\* SwapChain::get_current_frame: the frame's TextureView does not own its handle.
SwapChain_view(o) ==
    /\ Running
    /\ res[o].state = "absent"
    /\ \A n \in Objects : n < o => res[n].state # "absent"
    /\ res' = [res EXCEPT ![o] = [NoObject EXCEPT !.kind = "TextureView", !.owned = FALSE,
                                                   !.state = "alive"]]
    /\ UNCHANGED <<drops, threadVars>>

AcquireView ==
    /\ \E o \in Objects : SwapChain_view(o)
    /\ UNCHANGED <<bufVars, script, encVars, scVars, mapping, moreVars>>

\* The other values whose destructor calls the backend: a CommandBuffer that
\* still holds its id, an open pass, the output of a SwapChainFrame.
ScopedKinds == {"CommandBuffer", "RenderPass", "ComputePass", "SwapChainTexture"}

\* CommandEncoder::finish, begin_render_pass, begin_compute_pass,
\* SwapChain::get_current_frame, seen as the calls that hand the thread such a
\* value.
Value_acquire(o, kind) ==
    /\ Running
    /\ res[o].state = "absent"
    /\ \A n \in Objects : n < o => res[n].state # "absent"
    /\ res' = [res EXCEPT ![o] = [NoObject EXCEPT !.kind = kind, !.owned = TRUE,
                                                   !.state = "alive"]]
    /\ UNCHANGED <<drops, threadVars>>

Acquire ==
    /\ \E o \in Objects, kind \in ScopedKinds : Value_acquire(o, kind)
    /\ UNCHANGED <<bufVars, script, encVars, scVars, mapping, moreVars>>

\* The panicking test with its negation lost.
drop_forwards_inverted(r) == r.owned /\ panicking

\* A destructor with no panicking test at all.
drop_forwards_always(r) == r.owned

\* The condition under which a destructor calls the backend:
\* !thread::panicking(), and self.owned for Texture and TextureView.
drop_forwards(r) == r.owned /\ ~panicking

\* Drop for each wrapper.
Wrapper_drop(o) ==
    /\ ~aborted
    /\ res[o].state = "alive"
    /\ res' = [res EXCEPT ![o].state = "dropped", ![o].unwound = panicking]
    /\ drops' = IF drop_forwards(res[o])
                THEN [drops EXCEPT ![o] = Append(@, DropOp(res[o].kind))]
                ELSE drops
    /\ UNCHANGED threadVars

Drop ==
    /\ \E o \in Objects : Wrapper_drop(o)
    /\ UNCHANGED <<bufVars, script, encVars, scVars, mapping, moreVars>>

ResPanic == Panic /\ UNCHANGED <<res, drops, bufVars, script, encVars, scVars, mapping, moreVars>>

ResRecover == Recover /\ UNCHANGED <<res, drops, bufVars, script, encVars, scVars, mapping, moreVars>>

\* ------------------------------------------------------- presentation cycle

\* Most surfaces, SwapChain values and SwapChainFrame values of a run.
MaxSurfaces == 1

MaxSwapChains == 2

MaxFrames == 2

Surfaces == 1..MaxSurfaces

SwapChains == 1..MaxSwapChains

Frames == 1..MaxFrames

NoSwapChain == [state |-> "absent", surface |-> 0]

\* A SwapChainTexture: the swap chain it came from, its view's owned flag,
\* the backend calls made with its view.
NoFrame ==
    [state |-> "absent", sc |-> 0, owned |-> FALSE, unwound |-> FALSE, calls |-> <<>>]

\* SwapChainStatus.
Statuses == {"Good", "Suboptimal", "Timeout", "Outdated", "Lost"}

\* The outcome of a swap-chain call: "Ok", "Err" or "panic".
ScResult(op, result, suboptimal, error, presented) ==
    [op |-> op, result |-> result, suboptimal |-> suboptimal, error |-> error,
     presented |-> presented]

\* The backend behind device_create_swap_chain: recreating the swap chain of
\* a surface is fatal while an image of it is acquired and not presented.
Backend_accepts_swap_chain(surface) == ~acquired[surface]

\* A backend that hands out an image whatever it has handed out before.
Backend_offers_view_always(surface) == TRUE

\* The backend behind swap_chain_get_current_texture_view: it has a view to
\* give only while no image of the surface is acquired.
Backend_offers_view(surface) == ~acquired[surface]

\* The replies (Option<TextureViewId>, SwapChainStatus) of the backend.
Backend_replies(surface) ==
    {[view |-> v, status |-> st] :
        v \in (IF Backend_offers_view(surface) THEN BOOLEAN ELSE {FALSE}),
        st \in Statuses}

\* The backend behind swap_chain_present: the image is no longer acquired.
Backend_present(surface) == [acquired EXCEPT ![surface] = FALSE]

\* Device::create_swap_chain: the call is forwarded; the backend decides.
Device_create_swap_chain(s, surface) ==
    /\ Running
    /\ swapchain[s].state = "absent"
    /\ \A t \in SwapChains : t < s => swapchain[t].state # "absent"
    /\ IF Backend_accepts_swap_chain(surface)
       THEN /\ swapchain' = [swapchain EXCEPT ![s] = [state |-> "alive", surface |-> surface]]
            /\ sc_last' = ScResult("create_swap_chain", "Ok", FALSE, "none", FALSE)
            /\ UNCHANGED threadVars
       ELSE /\ swapchain' = swapchain
            /\ sc_last' = ScResult("create_swap_chain", "panic", FALSE, "none", FALSE)
            /\ Raise
    /\ UNCHANGED <<frame, acquired>>

CreateSwapChain ==
    /\ \E s \in SwapChains, surface \in Surfaces : Device_create_swap_chain(s, surface)
    /\ UNCHANGED <<bufVars, script, encVars, resVars, mapping, moreVars>>

\* get_current_frame's match on the status.
status_result(status) ==
    CASE status = "Good" -> [ok |-> TRUE, suboptimal |-> FALSE, error |-> "none"]
      [] status = "Suboptimal" -> [ok |-> TRUE, suboptimal |-> TRUE, error |-> "none"]
      [] status = "Timeout" -> [ok |-> FALSE, suboptimal |-> FALSE, error |-> "Timeout"]
      [] status = "Outdated" -> [ok |-> FALSE, suboptimal |-> FALSE, error |-> "Outdated"]
      [] status = "Lost" -> [ok |-> FALSE, suboptimal |-> FALSE, error |-> "Lost"]

\* A present kept for the unwinding case alone.
present_forwards_unwinding == panicking

\* A Drop for SwapChainTexture that presents nothing.
present_forwards_never == FALSE

\* Drop for SwapChainTexture: the test before swap_chain_present.
present_forwards == ~panicking

\* What the destruction of a SwapChainTexture forwards with its view: the
\* present of its own Drop, then the drop of its field view: TextureView.
SwapChainTexture_calls(owned) ==
    (IF present_forwards THEN <<"swap_chain_present">> ELSE <<>>)
        \o (IF drop_forwards([owned |-> owned]) THEN <<"texture_view_drop">> ELSE <<>>)

\* SwapChain::get_current_frame.  view_id.map wraps a view, if there is one,
\* in a SwapChainTexture with owned: false; Good and Suboptimal unwrap it;
\* the other arms return Err and the SwapChainTexture, if any, is destroyed
\* on the way out.
SwapChain_get_current_frame(s, reply) ==
    LET r == status_result(reply.status)
        surface == swapchain[s].surface
    IN  /\ Running
        /\ swapchain[s].state = "alive"
        /\ reply \in Backend_replies(surface)
        /\ swapchain' = swapchain
        /\ IF r.ok
           THEN IF reply.view
                THEN /\ \E f \in Frames :
                          /\ frame[f].state = "absent"
                          /\ \A g \in Frames : g < f => frame[g].state # "absent"
                          /\ frame' = [frame EXCEPT ![f] =
                                           [NoFrame EXCEPT !.state = "alive", !.sc = s,
                                                           !.owned = FALSE]]
                     /\ acquired' = [acquired EXCEPT ![surface] = TRUE]
                     /\ sc_last' = ScResult("get_current_frame", "Ok", r.suboptimal,
                                            "none", FALSE)
                     /\ UNCHANGED threadVars
                ELSE /\ sc_last' = ScResult("get_current_frame", "panic", FALSE,
                                            "none", FALSE)
                     /\ UNCHANGED <<frame, acquired>>
                     /\ Raise
           ELSE /\ sc_last' = ScResult("get_current_frame", "Err", FALSE, r.error,
                                       reply.view /\ present_forwards)
                /\ acquired' = IF reply.view /\ ~present_forwards
                               THEN [acquired EXCEPT ![surface] = TRUE]
                               ELSE acquired
                /\ UNCHANGED <<frame, threadVars>>

GetCurrentFrame ==
    /\ \E s \in SwapChains, v \in BOOLEAN, st \in Statuses :
           SwapChain_get_current_frame(s, [view |-> v, status |-> st])
    /\ UNCHANGED <<bufVars, script, encVars, resVars, mapping, moreVars>>

\* The destruction of a SwapChainFrame: Drop for SwapChainTexture, then the
\* drop of its view.
SwapChainTexture_drop(f) ==
    LET surface == swapchain[frame[f].sc].surface
    IN  /\ ~aborted
        /\ frame[f].state = "alive"
        /\ frame' = [frame EXCEPT ![f].state = "dropped", ![f].unwound = panicking,
                                  ![f].calls = @ \o SwapChainTexture_calls(frame[f].owned)]
        /\ acquired' = IF present_forwards THEN Backend_present(surface) ELSE acquired
        /\ sc_last' = ScResult("drop_frame", "Ok", FALSE, "none", present_forwards)
        /\ UNCHANGED <<swapchain, threadVars>>

DropFrame ==
    /\ \E f \in Frames : SwapChainTexture_drop(f)
    /\ UNCHANGED <<bufVars, script, encVars, resVars, mapping, moreVars>>

ScPanic ==
    /\ Panic
    /\ sc_last' = ScResult("panic", "panic", FALSE, "none", FALSE)
    /\ UNCHANGED <<swapchain, frame, acquired, bufVars, script, encVars, resVars, mapping, moreVars>>

ScRecover ==
    /\ Recover
    /\ sc_last' = ScResult("catch_unwind", "Ok", FALSE, "none", FALSE)
    /\ UNCHANGED <<swapchain, frame, acquired, bufVars, script, encVars, resVars, mapping, moreVars>>

\* ------------------------------------------- the shared backend instance

\* Most wrappers a run derives from the Instance.
MaxHolders == 3

\* Holder 0 is the Instance itself.
Holders == 0..MaxHolders

HolderKinds == {"Instance", "Adapter", "Surface", "Device", "Buffer", "SwapChain"}

NoHolder == [kind |-> "none", state |-> "absent", context |-> FALSE]

\* The wrappers a wrapper of each kind creates: Instance::request_adapter /
\* enumerate_adapters and Instance::create_surface, Adapter::request_device,
\* Device::create_buffer and Device::create_swap_chain.
Derives(kind) ==
    CASE kind = "Instance" -> {"Adapter", "Surface"}
      [] kind = "Adapter" -> {"Device"}
      [] kind = "Device" -> {"Buffer", "SwapChain"}
      [] OTHER -> {}

\* The struct has a field context: Arc<C>.  Surface has the field id alone.
holds_context(kind) == kind # "Surface"

\* Instance::new: Arc::new(C::init(backends)).
Instance_new ==
    /\ strong = 1
    /\ holder = [o \in Holders |->
                    IF o = 0
                    THEN [kind |-> "Instance", state |-> "alive", context |-> TRUE]
                    ELSE NoHolder]

\* A creating method of a live wrapper p: the new wrapper takes
\* Arc::clone(&self.context) when its struct has a context field.
\* create_swap_chain also borrows a live Surface.
Handle_derive(p, o, kind) ==
    /\ holder[p].state = "alive"
    /\ holder[o].state = "absent"
    /\ kind \in Derives(holder[p].kind)
    /\ kind = "SwapChain" =>
           \E u \in Holders : holder[u].state = "alive" /\ holder[u].kind = "Surface"
    /\ holder' = [holder EXCEPT ![o] = [kind |-> kind, state |-> "alive",
                                        context |-> holds_context(kind)]]
    /\ strong' = IF holds_context(kind) THEN strong + 1 ELSE strong

Derive ==
    /\ \E p \in Holders, o \in Holders \ {0}, kind \in HolderKinds :
           Handle_derive(p, o, kind)
    /\ UNCHANGED <<bufVars, script, threadVars, encVars, resVars, scVars, mapping,
                   raceVars, viewVars>>

\* A wrapper goes out of scope: its fields are dropped, the Arc among them.
\* The backend instance is dropped with the last Arc.
Handle_drop(o) ==
    /\ holder[o].state = "alive"
    /\ holder' = [holder EXCEPT ![o].state = "dropped"]
    /\ strong' = IF holder[o].context THEN strong - 1 ELSE strong

Release ==
    /\ \E o \in Holders : Handle_drop(o)
    /\ UNCHANGED <<bufVars, script, threadVars, encVars, resVars, scVars, mapping,
                   raceVars, viewVars>>

\* ------------------------------------------- a buffer shared by threads

\* Threads that hold a reference to the one Buffer.
MaxThreads == 2

\* Most MapContext transitions the threads make in a run.
MaxRaceOps == 3

Threads == 1..MaxThreads

ThreadIdle == [pc |-> "idle", ticket |-> 0]

\* The place of the next accepted transition in lock order.
NextTicket == Len(locklog) + 1

\* Buffer::unmap, first statement: self.map_context.lock().reset().  The
\* guard is a temporary: the lock is released at the end of the statement.
\* A failed assert unwinds the calling thread; the Mutex does not poison.
Thread_unmap_lock(t) ==
    LET r == MapContext_reset(mc)
    IN  /\ tpc[t].pc = "idle"
        /\ Len(locklog) < MaxRaceOps
        /\ mc' = r.mc
        /\ IF r.ok
           THEN /\ locklog' = Append(locklog, [op |-> "unmap", thread |-> t])
                /\ tpc' = [tpc EXCEPT ![t] = [pc |-> "unmap_call", ticket |-> NextTicket]]
           ELSE /\ locklog' = locklog
                /\ tpc' = [tpc EXCEPT ![t] = [pc |-> "panicked", ticket |-> 0]]
        /\ blog' = blog

\* Buffer::unmap, second statement: Context::buffer_unmap, without the lock.
Thread_unmap_call(t) ==
    /\ tpc[t].pc = "unmap_call"
    /\ blog' = Append(blog, [call |-> "buffer_unmap", ticket |-> tpc[t].ticket])
    /\ tpc' = [tpc EXCEPT ![t] = ThreadIdle]
    /\ UNCHANGED <<mc, locklog>>

\* BufferSlice::map_async, the block that holds the lock: the assert and the
\* assignment of initial_range.  The lock is released at the end of the block.
Thread_map_async_lock(t, slice) ==
    /\ tpc[t].pc = "idle"
    /\ Len(locklog) < MaxRaceOps
    /\ IF map_async_check(mc)
       THEN /\ mc' = [mc EXCEPT !.initial_range =
                          Range(slice.offset, map_async_end(mc, slice))]
            /\ locklog' = Append(locklog, [op |-> "map_async", thread |-> t])
            /\ tpc' = [tpc EXCEPT ![t] = [pc |-> "map_async_call", ticket |-> NextTicket]]
       ELSE /\ mc' = mc
            /\ locklog' = locklog
            /\ tpc' = [tpc EXCEPT ![t] = [pc |-> "panicked", ticket |-> 0]]
    /\ blog' = blog

\* BufferSlice::map_async, after the block: Context::buffer_map_async.
Thread_map_async_call(t) ==
    /\ tpc[t].pc = "map_async_call"
    /\ blog' = Append(blog, [call |-> "buffer_map_async", ticket |-> tpc[t].ticket])
    /\ tpc' = [tpc EXCEPT ![t] = ThreadIdle]
    /\ UNCHANGED <<mc, locklog>>

RaceFrame ==
    UNCHANGED <<views, last, calls, script, threadVars, encVars, resVars, scVars,
                mapping, ctxVars, viewVars>>

UnmapLock == (\E t \in Threads : Thread_unmap_lock(t)) /\ RaceFrame

UnmapCall == (\E t \in Threads : Thread_unmap_call(t)) /\ RaceFrame

MapAsyncLock ==
    (\E t \in Threads, slice \in Slices : Thread_map_async_lock(t, slice)) /\ RaceFrame

MapAsyncCall == (\E t \in Threads : Thread_map_async_call(t)) /\ RaceFrame

\* ------------------------------------------------------- BufferViewMut

\* Most BufferViewMut values alive at once.
MaxViews == 2

ViewIds == 1..MaxViews

\* The BufferUsage flags a buffer is declared with, those of mapping and one
\* other.
BufferUsageFlags == {"MAP_READ", "MAP_WRITE", "COPY_DST"}

\* BufferUsage::contains: every bit of flags is set in u.
BufferUsage_contains(u, flags) == flags \subseteq u

NoView == [state |-> "absent", slice |-> [offset |-> 0, size |-> None],
           readable |-> FALSE]

\* A view that is readable whatever the usage.
view_readable_always(u) == TRUE

\* BufferViewMut.readable as get_mapped_range_mut sets it.
view_readable(u) == BufferUsage_contains(u, {"MAP_READ"})

\* BufferSlice::get_mapped_range_mut: add, the backend call, then the view
\* with its readable flag.
BufferSlice_get_mapped_range_mut(v, slice) ==
    /\ vmut[v].state = "absent"
    /\ BufferSlice_get_mapped_range(slice)
    /\ vmut' = IF last'.ok
               THEN [vmut EXCEPT ![v] = [state |-> "alive", slice |-> slice,
                                         readable |-> view_readable(usage)]]
               ELSE vmut
    /\ usage' = usage

\* Deref for BufferViewMut: assert!(self.readable, ..), then the data.
BufferViewMut_deref(v) ==
    /\ vmut[v].state = "alive"
    /\ Running
    /\ Step
    /\ last' = Call("deref", vmut[v].readable, "none")
    /\ IF vmut[v].readable THEN UNCHANGED threadVars ELSE Raise
    /\ UNCHANGED <<mc, views, usage, vmut>>

\* DerefMut for BufferViewMut: the data, with no test.
BufferViewMut_deref_mut(v) ==
    /\ vmut[v].state = "alive"
    /\ Running
    /\ Step
    /\ last' = Call("deref_mut", TRUE, "none")
    /\ UNCHANGED <<mc, views, usage, vmut, threadVars>>

\* Drop for BufferViewMut.
BufferViewMut_drop(v) ==
    /\ vmut[v].state = "alive"
    /\ BufferView_drop(vmut[v].slice)
    /\ vmut' = [vmut EXCEPT ![v] = NoView]
    /\ usage' = usage

ViewFrame ==
    UNCHANGED <<script, encVars, resVars, scVars, mapping, ctxVars, raceVars>>

GetMappedRangeMut ==
    /\ \E v \in ViewIds, slice \in Slices : BufferSlice_get_mapped_range_mut(v, slice)
    /\ ViewFrame

ReadView == (\E v \in ViewIds : BufferViewMut_deref(v)) /\ ViewFrame

WriteView == (\E v \in ViewIds : BufferViewMut_deref_mut(v)) /\ ViewFrame

DropViewMut == (\E v \in ViewIds : BufferViewMut_drop(v)) /\ ViewFrame

ViewCatch == CatchUnwind /\ UNCHANGED <<mc, views, usage, vmut>> /\ ViewFrame

\* --------------------------------------------------------- specifications

ThreadInit == panicking = FALSE /\ aborted = FALSE

\* No buffer in play.
BufferIdle ==
    /\ mc = MapContext_new(0)
    /\ views = EmptyBag
    /\ last = Call("none", TRUE, "none")
    /\ calls = 0

ScriptIdle == script = [pc |-> "idle", offset |-> 0, n |-> 0]

\* No encoder, pass or command buffer yet.
EncInit ==
    /\ encoder = [e \in Encoders |-> "absent"]
    /\ pass = [p \in Passes |-> NoPass]
    /\ cmdbuf = [e \in Encoders |-> [state |-> "absent", id |-> "None"]]
    /\ backend = [e \in Encoders |-> NoCalls]
    /\ enc_fwd = NoFwd

\* No swap chain yet, no image acquired.
ScInit ==
    /\ swapchain = [s \in SwapChains |-> NoSwapChain]
    /\ frame = [f \in Frames |-> NoFrame]
    /\ acquired = [surface \in Surfaces |-> FALSE]
    /\ sc_last = ScResult("none", "Ok", FALSE, "none", FALSE)

\* No call history kept.
MappingIdle == mapping = "idle"

\* No Instance yet.
CtxIdle ==
    /\ strong = 0
    /\ holder = [o \in Holders |-> NoHolder]

\* No thread has called anything on the buffer.
RaceIdle ==
    /\ tpc = [t \in Threads |-> ThreadIdle]
    /\ locklog = <<>>
    /\ blog = <<>>

\* No BufferViewMut, no usage looked at.
ViewIdle ==
    /\ usage = {}
    /\ vmut = [v \in ViewIds |-> NoView]

\* No Instance, no threads sharing the buffer, no BufferViewMut followed.
MoreIdle == CtxIdle /\ RaceIdle /\ ViewIdle

\* No resource wrapper yet.
ResInit ==
    /\ res = [o \in Objects |-> NoObject]
    /\ drops = [o \in Objects |-> <<>>]

\* A buffer fresh from Device::create_buffer.
BufferInit ==
    /\ \E size \in 0..MaxSize, mapped_at_creation \in BOOLEAN :
           mc = Device_create_buffer(size, mapped_at_creation)
    /\ views = EmptyBag
    /\ last = Call("create_buffer", TRUE, "device_create_buffer")
    /\ calls = 0

\* Any calls on one buffer.
Init == BufferInit /\ ScriptIdle /\ ThreadInit /\ EncInit /\ ResInit /\ ScInit /\ MappingIdle /\ MoreIdle

Next ==
    \/ GetMappedRange
    \/ DropView
    \/ Unmap
    \/ MapAsync
    \/ Catch

Spec == Init /\ [][Next]_vars

\* Command recording: encoders and their passes.
InitEnc == BufferIdle /\ ScriptIdle /\ ThreadInit /\ EncInit /\ ResInit /\ ScInit /\ MappingIdle /\ MoreIdle

NextEnc ==
    \/ CreateEncoder
    \/ BeginPass
    \/ DropPass
    \/ Record
    \/ Finish
    \/ DropEncoder
    \/ EncPanic
    \/ EncRecover

SpecEnc == InitEnc /\ [][NextEnc]_vars

\* Submission: encoders, the command buffers they finish into, the queue.
NextSubmit ==
    \/ CreateEncoder
    \/ Record
    \/ Finish
    \/ DropEncoder
    \/ Submit
    \/ DropCommandBuffer
    \/ EncPanic
    \/ EncRecover

SpecSubmit == InitEnc /\ [][NextSubmit]_vars

\* Creation and destruction of resource wrappers.
InitRes == BufferIdle /\ ScriptIdle /\ ThreadInit /\ EncInit /\ ResInit /\ ScInit /\ MappingIdle /\ MoreIdle

NextRes ==
    \/ Create
    \/ AcquireView
    \/ Drop
    \/ ResPanic
    \/ ResRecover

SpecRes == InitRes /\ [][NextRes]_vars

\* Destruction of every value whose destructor calls the backend.
NextDrop ==
    \/ Create
    \/ AcquireView
    \/ Acquire
    \/ Drop
    \/ ResPanic
    \/ ResRecover

SpecDrop == InitRes /\ [][NextDrop]_vars

\* The presentation cycle: swap chains and their frames.
NextSwap ==
    \/ CreateSwapChain
    \/ GetCurrentFrame
    \/ DropFrame
    \/ ScPanic
    \/ ScRecover

SpecSwap == InitRes /\ [][NextSwap]_vars

\* Any calls on one buffer, with the history of its mapping kept beside it:
\* "mapped" from a create_buffer with mapped_at_creation or an accepted
\* map_async until the next unmap, "unmapped" before and after an accepted
\* unmap, "unmap_rejected" after an unmap that panicked.
InitMapping ==
    /\ \E size \in 0..MaxSize, mapped_at_creation \in BOOLEAN :
           /\ mc = Device_create_buffer(size, mapped_at_creation)
           /\ mapping = IF mapped_at_creation THEN "mapped" ELSE "unmapped"
    /\ views = EmptyBag
    /\ last = Call("create_buffer", TRUE, "device_create_buffer")
    /\ calls = 0
    /\ ScriptIdle /\ ThreadInit /\ EncInit /\ ResInit /\ ScInit /\ MoreIdle

TrackGetMappedRange ==
    /\ \E slice \in Slices : BufferSlice_get_mapped_range(slice)
    /\ UNCHANGED <<script, encVars, resVars, scVars, mapping, moreVars>>

TrackDropView ==
    /\ \E slice \in BagToSet(views) : BufferView_drop(slice)
    /\ UNCHANGED <<script, encVars, resVars, scVars, mapping, moreVars>>

TrackUnmap ==
    /\ Buffer_unmap
    /\ mapping' = IF last'.ok THEN "unmapped" ELSE "unmap_rejected"
    /\ UNCHANGED <<script, encVars, resVars, scVars, moreVars>>

TrackMapAsync ==
    /\ \E slice \in Slices : BufferSlice_map_async(slice)
    /\ mapping' = IF last'.ok THEN "mapped" ELSE mapping
    /\ UNCHANGED <<script, encVars, resVars, scVars, moreVars>>

TrackCatch == CatchUnwind /\ UNCHANGED <<script, encVars, resVars, scVars, mapping, moreVars>>

NextMapping ==
    \/ TrackGetMappedRange
    \/ TrackDropView
    \/ TrackUnmap
    \/ TrackMapAsync
    \/ TrackCatch

SpecMapping == InitMapping /\ [][NextMapping]_vars

\* The round trip slice(offset..offset+n).get_mapped_range(), drop of the
\* view, unmap(), on a buffer created with mapped_at_creation = true.
RoundTripMaxSize == 5

InitRoundTrip ==
    /\ \E size \in 0..RoundTripMaxSize, offset \in 0..RoundTripMaxSize,
          n \in 0..RoundTripMaxSize :
           /\ offset + n <= size
           /\ mc = Device_create_buffer(size, TRUE)
           /\ script = [pc |-> "created", offset |-> offset, n |-> n]
    /\ views = EmptyBag
    /\ last = Call("create_buffer", TRUE, "device_create_buffer")
    /\ calls = 0
    /\ ThreadInit /\ EncInit /\ ResInit /\ ScInit /\ MappingIdle /\ MoreIdle

RoundTripView ==
    /\ script.pc = "created"
    /\ BufferSlice_get_mapped_range(
           Buffer_slice(Bounds("Included", script.offset,
                               "Excluded", script.offset + script.n)))
    /\ script' = [script EXCEPT !.pc = "viewed"]
    /\ UNCHANGED <<encVars, resVars, scVars, mapping, moreVars>>

RoundTripRelease ==
    /\ script.pc = "viewed"
    /\ \E slice \in BagToSet(views) : BufferView_drop(slice)
    /\ script' = [script EXCEPT !.pc = "released"]
    /\ UNCHANGED <<encVars, resVars, scVars, mapping, moreVars>>

RoundTripUnmap ==
    /\ script.pc = "released"
    /\ Buffer_unmap
    /\ script' = [script EXCEPT !.pc = "unmapped"]
    /\ UNCHANGED <<encVars, resVars, scVars, mapping, moreVars>>

NextRoundTrip ==
    \/ RoundTripView
    \/ RoundTripRelease
    \/ RoundTripUnmap

SpecRoundTrip == InitRoundTrip /\ [][NextRoundTrip]_vars

\* ------------------------------------------------------------------ claims

\* The buffer's calls with the outcome of the mapping future followed:
\* mapping is "pending" from an accepted map_async until its future resolves,
\* then "ready" or "failed".
AsyncMapAsync ==
    /\ \E slice \in Slices : BufferSlice_map_async(slice)
    /\ mapping' = IF last'.ok THEN "pending" ELSE mapping
    /\ UNCHANGED <<script, encVars, resVars, scVars, moreVars>>

\* The future map_async returned resolves.  It is the backend's future,
\* returned as it is: no code of the wrapper runs when it resolves, and the
\* MapContext is left as map_async set it.
Future_resolve(result) ==
    /\ mapping = "pending"
    /\ mapping' = IF result = "Ok" THEN "ready" ELSE "failed"
    /\ UNCHANGED bufVars

Resolve ==
    /\ \E result \in {"Ok", "Err"} : Future_resolve(result)
    /\ UNCHANGED <<script, threadVars, encVars, resVars, scVars, moreVars>>

NextAsync ==
    \/ TrackGetMappedRange
    \/ TrackDropView
    \/ TrackUnmap
    \/ AsyncMapAsync
    \/ Resolve
    \/ TrackCatch

SpecAsync == InitMapping /\ [][NextAsync]_vars

\* Two threads calling unmap and map_async on one buffer.
InitRace ==
    /\ BufferInit /\ RaceIdle
    /\ ScriptIdle /\ ThreadInit /\ EncInit /\ ResInit /\ ScInit
    /\ MappingIdle /\ CtxIdle /\ ViewIdle

NextRace ==
    \/ UnmapLock
    \/ UnmapCall
    \/ MapAsyncLock
    \/ MapAsyncCall

SpecRace == InitRace /\ [][NextRace]_vars

\* Mutable views of one buffer: created, read, written, dropped.
InitView ==
    /\ BufferInit
    /\ usage \in SUBSET BufferUsageFlags
    /\ vmut = [v \in ViewIds |-> NoView]
    /\ ScriptIdle /\ ThreadInit /\ EncInit /\ ResInit /\ ScInit
    /\ MappingIdle /\ CtxIdle /\ RaceIdle

NextView ==
    \/ GetMappedRangeMut
    \/ ReadView
    \/ WriteView
    \/ DropViewMut
    \/ ViewCatch

SpecView == InitView /\ [][NextView]_vars

\* The range expressions a..b, a.., ..b and .. over the addresses 0..MaxSize,
\* the reversed ones (b < a) included: Buffer::slice accepts any RangeBounds
\* value.
WrapBounds ==
    {bounds \in AllBounds :
        /\ bounds.sk \in {"Included", "Unbounded"}
        /\ bounds.ek \in {"Excluded", "Unbounded"}
        /\ bounds.sk = "Unbounded" => bounds.sv = 0
        /\ bounds.ek = "Unbounded" => bounds.ev = 0}

WrapSlices == {Buffer_slice(bounds) : bounds \in WrapBounds}

WrapGetMappedRange ==
    /\ \E slice \in WrapSlices : BufferSlice_get_mapped_range(slice)
    /\ UNCHANGED <<script, encVars, resVars, scVars, mapping, moreVars>>

WrapMapAsync ==
    /\ \E slice \in WrapSlices : BufferSlice_map_async(slice)
    /\ UNCHANGED <<script, encVars, resVars, scVars, mapping, moreVars>>

\* Mapping calls on one buffer with slices of any range expression.
NextWrap ==
    \/ WrapGetMappedRange
    \/ DropView
    \/ Unmap
    \/ WrapMapAsync
    \/ Catch

SpecWrap == Init /\ [][NextWrap]_vars

\* The Instance and the wrappers derived from it.
InitCtx ==
    /\ Instance_new
    /\ BufferIdle /\ ScriptIdle /\ ThreadInit /\ EncInit /\ ResInit /\ ScInit
    /\ MappingIdle /\ RaceIdle /\ ViewIdle

NextCtx ==
    \/ Derive
    \/ Release

SpecCtx == InitCtx /\ [][NextCtx]_vars

\* C1: no two open sub-ranges share a byte: for any two distinct entries
\* [a,b) and [c,d) of sub_ranges, b <= c or d <= a.
C1_NoOverlap ==
    \A i, j \in DOMAIN mc.sub_ranges :
        i # j => \/ mc.sub_ranges[i].end <= mc.sub_ranges[j].start
                 \/ mc.sub_ranges[j].end <= mc.sub_ranges[i].start

\* Two non-empty sub-ranges are open side by side.
C1_Witness ==
    \E i, j \in DOMAIN mc.sub_ranges :
        /\ i # j
        /\ mc.sub_ranges[i].start < mc.sub_ranges[i].end
        /\ mc.sub_ranges[j].start < mc.sub_ranges[j].end

\* The offset or the end add resolves lies outside
\* [initial_range.start, initial_range.end].
Outside(m, slice) ==
    LET end == resolve_end(m, slice.offset, slice.size)
    IN  \/ slice.offset < m.initial_range.start
        \/ slice.offset > m.initial_range.end
        \/ end < m.initial_range.start
        \/ end > m.initial_range.end

\* C2: add(offset, size) is rejected whenever offset or the computed end
\* lies outside the outstanding mapping range, for sized and for open-ended
\* requests alike.
C2_AddRejectsOutside ==
    [][\A slice \in Slices :
          (BufferSlice_get_mapped_range(slice) /\ Outside(mc, slice)) => ~last'.ok]_vars

\* C3: in every reachable state every open sub-range lies within the
\* outstanding mapping range initial_range.
C3_SubRangesWithinMapping ==
    \A i \in DOMAIN mc.sub_ranges :
        /\ mc.initial_range.start <= mc.sub_ranges[i].start
        /\ mc.sub_ranges[i].end <= mc.initial_range.end

\* C4: unmap succeeds if and only if no sub-range is open at the time of
\* the call, whether or not a mapping range is outstanding.
C4_UnmapIffNoViews ==
    [][Buffer_unmap =>
          /\ last'.ok <=> mc.sub_ranges = <<>>
          /\ last'.ok <=> ~panicking']_vars

\* An unmap was rejected with a sub-range open and no mapping outstanding.
C4_Witness ==
    /\ last.op = "unmap" /\ ~last.ok /\ panicking
    /\ mc.sub_ranges # <<>>

\* The view's recomputed [offset, end) is not among the open sub-ranges.
NoMatch(m, slice) ==
    \A i \in DOMAIN m.sub_ranges :
        m.sub_ranges[i] # Range(slice.offset, resolve_end(m, slice.offset, slice.size))

\* C5: remove(offset, size) is rejected (a panic) when no open sub-range
\* equals the recomputed [offset, end), and then leaves the sub-ranges and
\* the mapping range as they were.
C5_RemoveRejectsMismatch ==
    [][\A slice \in BagToSet(views) :
          (BufferView_drop(slice) /\ NoMatch(mc, slice)) =>
              /\ ~last'.ok
              /\ (panicking' /\ ~panicking) \/ (aborted' /\ ~aborted)
              /\ mc' = mc]_vars

\* A view was released whose recomputed range matched no open sub-range.
C5_Witness ==
    /\ last.op = "drop_view" /\ ~last.ok
    /\ mc.sub_ranges # <<>>

\* C6: on a buffer of size S created with mapped_at_creation = true, for
\* offset + n <= S (n = 0 included), slice(offset..offset+n).get_mapped_range(),
\* the drop of the view and unmap() all complete with no rejection, and leave
\* no open sub-range and no outstanding mapping range.
C6_RoundTrip ==
    /\ script.pc \in {"viewed", "released", "unmapped"} =>
           last.ok /\ ~panicking /\ ~aborted
    /\ script.pc = "viewed" => BagCardinality(views) = 1
    /\ script.pc = "unmapped" =>
           /\ mc.sub_ranges = <<>>
           /\ mc.initial_range = ZeroRange
           /\ views = EmptyBag

\* The round trip has run to its end for an empty slice inside the buffer.
C6_Witness ==
    /\ script.pc = "unmapped" /\ last.op = "unmap" /\ last.ok
    /\ script.n = 0 /\ script.offset > 0

\* A pass begun on encoder e whose end call the backend has not received.
Unfinalized(e) ==
    \E p \in Passes : pass[p].state # "absent" /\ pass[p].enc = e /\ pass[p].ends = <<>>

\* The backend calls that use an encoder directly.
EncoderUses ==
    DirectOps \cup {"command_encoder_begin_render_pass",
                    "command_encoder_begin_compute_pass", "command_encoder_finish"}

\* C7, as stated: while a pass opened on an encoder has not been finalized,
\* no direct encoder operation, finish or second begin on that encoder is
\* forwarded to the backend.
C7_NoUseBeforeFinalized ==
    [][\A e \in Encoders :
          Unfinalized(e) => ~(enc_fwd'.enc = e /\ enc_fwd'.op \in EncoderUses)]_vars

\* C7, amended: while a pass value opened on an encoder is alive and holds
\* its exclusive borrow, no direct encoder operation, finish or second begin
\* on that encoder is forwarded; once the pass value is gone they are
\* accepted again, whether or not its destructor forwarded the end call.
C7_NoUseWhileBorrowed ==
    [][\A e \in Encoders :
          Borrowed(e) => ~(enc_fwd'.enc = e /\ enc_fwd'.op \in EncoderUses)]_vars

\* A direct operation was forwarded on an encoder after a pass on it ended.
C7_Witness ==
    \E p \in Passes :
        /\ pass[p].state = "closed" /\ pass[p].ends # <<>>
        /\ enc_fwd.enc = pass[p].enc /\ enc_fwd.op \in DirectOps

\* The end call that matches a pass of the given kind.
MatchingEnd(kind) ==
    CASE kind = "render" -> "command_encoder_end_render_pass"
      [] kind = "compute" -> "command_encoder_end_compute_pass"

\* C8, as stated: every pass that has terminated, however it terminated,
\* had exactly one matching end call forwarded.
C8_ExactlyOneEnd ==
    \A p \in Passes : pass[p].state = "closed" => pass[p].ends = <<MatchingEnd(pass[p].kind)>>

\* C8, amended: a pass destroyed while the thread is not unwinding had
\* exactly one matching end call forwarded; a pass destroyed while the thread
\* unwinds, or still open, had none.
C8_OneEndUnlessUnwinding ==
    \A p \in Passes :
        /\ (pass[p].state = "closed" /\ ~pass[p].unwound) =>
               pass[p].ends = <<MatchingEnd(pass[p].kind)>>
        /\ (pass[p].state = "closed" /\ pass[p].unwound) => pass[p].ends = <<>>
        /\ pass[p].state = "open" => pass[p].ends = <<>>

\* A compute pass ended at scope exit and another pass died in an unwinding.
C8_Witness ==
    \E p, q \in Passes :
        /\ pass[p].state = "closed" /\ ~pass[p].unwound /\ pass[p].kind = "compute"
        /\ pass[q].state = "closed" /\ pass[q].unwound

\* C9: command_encoder_finish is forwarded at most once per encoder and
\* yields exactly one CommandBuffer, whose handle goes to queue_submit at
\* most once over all submit calls.
C9_FinishOnceSubmitOnce ==
    \A e \in Encoders :
        /\ backend[e].finish <= 1
        /\ backend[e].finish = 1 <=> cmdbuf[e].state # "absent"
        /\ backend[e].finish = 1 <=> encoder[e] = "finished"
        /\ backend[e].submit <= 1
        /\ backend[e].submit = 1 <=> cmdbuf[e].state = "submitted"

\* Two command buffers went through submit, and submit was called after.
C9_Witness ==
    /\ \A e \in Encoders : cmdbuf[e].state = "submitted" /\ backend[e].submit = 1
    /\ enc_fwd.op = "queue_submit"

\* The Dispatch Contract drop operation that matches each wrapper kind.
MatchingDrop(kind) ==
    CASE kind = "Buffer" -> "buffer_drop"
      [] kind = "Texture" -> "texture_drop"
      [] kind = "TextureView" -> "texture_view_drop"
      [] kind = "Sampler" -> "sampler_drop"
      [] kind = "BindGroup" -> "bind_group_drop"
      [] kind = "BindGroupLayout" -> "bind_group_layout_drop"
      [] kind = "PipelineLayout" -> "pipeline_layout_drop"
      [] kind = "ShaderModule" -> "shader_module_drop"
      [] kind = "RenderPipeline" -> "render_pipeline_drop"
      [] kind = "ComputePipeline" -> "compute_pipeline_drop"
      [] kind = "RenderBundle" -> "render_bundle_drop"
      [] kind = "Device" -> "device_drop"

\* C10: an owning wrapper destroyed while the thread is not unwinding has
\* had the matching drop operation forwarded exactly once with its handle,
\* and a wrapper not yet destroyed has had none.
C10_DropOnceAtDestruction ==
    \A o \in Objects :
        /\ (res[o].state = "dropped" /\ res[o].owned /\ ~res[o].unwound) =>
               drops[o] = <<MatchingDrop(res[o].kind)>>
        /\ res[o].state \in {"absent", "alive"} => drops[o] = <<>>

\* An owning wrapper was destroyed outside unwinding while another lives on.
C10_Witness ==
    \E o, n \in Objects :
        /\ res[o].state = "dropped" /\ res[o].owned /\ ~res[o].unwound
        /\ res[n].state = "alive" /\ res[n].owned

\* C11: while the thread is unwinding no destructor forwards a call to the
\* backend: no *_drop, no command_encoder_end_render_pass /
\* end_compute_pass, no swap_chain_present.
C11_NoCallWhileUnwinding ==
    [][\A o \in Objects : (Wrapper_drop(o) /\ panicking) => drops' = drops]_vars

\* A SwapChainTexture and a pass or command buffer were destroyed in an
\* unwinding, and the backend heard of neither.
C11_Witness ==
    \E o, n \in Objects :
        /\ res[o].state = "dropped" /\ res[o].unwound /\ res[o].kind = "SwapChainTexture"
        /\ res[n].state = "dropped" /\ res[n].unwound
        /\ res[n].kind \in {"CommandBuffer", "RenderPass", "ComputePass"}
        /\ drops[o] = <<>> /\ drops[n] = <<>>

\* C12: no destructor fails when it runs while the thread is unwinding: the
\* drop of a BufferView or BufferViewMut in an unwinding raises no second
\* panic.
C12_NoFailureInUnwindingDrop ==
    [][\A slice \in BagToSet(views) :
          (BufferView_drop(slice) /\ panicking) => (last'.ok /\ ~aborted')]_vars

\* C13: the handle of every wrapper destroyed outside unwinding has gone
\* back to the backend through a releasing or consuming call (drop, finish,
\* submit, present) by then: a CommandEncoder destroyed outside unwinding was
\* either finished or is released by the step that destroys it.
C13_NoHandleLeaked ==
    [][\A e \in Encoders :
          (CommandEncoder_drop(e) /\ ~panicking) =>
              (backend[e].finish = 1 \/ enc_fwd'.enc = e)]_vars

\* C14: for every SwapChainFrame returned as Ok and destroyed outside
\* unwinding, swap_chain_present was forwarded exactly once for its view and
\* texture_view_drop never; a frame still alive has had neither.
C14_PresentOnceNoViewDrop ==
    \A f \in Frames :
        /\ (frame[f].state = "dropped" /\ ~frame[f].unwound) =>
               frame[f].calls = <<"swap_chain_present">>
        /\ frame[f].state = "alive" => frame[f].calls = <<>>

\* A frame was released outside unwinding, after a Suboptimal reply or not.
C14_Witness ==
    /\ sc_last.op = "drop_frame" /\ sc_last.presented
    /\ \E f \in Frames : frame[f].state = "dropped" /\ ~frame[f].unwound

\* The value get_current_frame is to return for a status.
Expected(status, result) ==
    CASE status = "Good" -> result.result = "Ok" /\ ~result.suboptimal
      [] status = "Suboptimal" -> result.result = "Ok" /\ result.suboptimal
      [] status = "Timeout" -> result.result = "Err" /\ result.error = "Timeout"
      [] status = "Outdated" -> result.result = "Err" /\ result.error = "Outdated"
      [] status = "Lost" -> result.result = "Err" /\ result.error = "Lost"

\* C15: get_current_frame maps every backend reply by its status: Good to
\* Ok with suboptimal = false, Suboptimal to Ok with suboptimal = true,
\* Timeout, Outdated, Lost to the Err of the same name, whatever optional
\* view comes with the status, and never fails fatally.
C15_StatusMapped ==
    [][\A s \in SwapChains, v \in BOOLEAN, st \in Statuses :
          SwapChain_get_current_frame(s, [view |-> v, status |-> st]) =>
              Expected(st, sc_last')]_vars

\* A frame obtained from a swap chain of the surface is alive.
FrameAlive(surface) ==
    \E f \in Frames :
        frame[f].state = "alive" /\ swapchain[frame[f].sc].surface = surface

\* A frame of the surface is alive, or was destroyed while the thread was
\* unwinding.
FrameUnpresented(surface) ==
    \E f \in Frames :
        /\ frame[f].state = "alive" \/ (frame[f].state = "dropped" /\ frame[f].unwound)
        /\ swapchain[frame[f].sc].surface = surface

C18_NoViewOfUnmappedBuffer ==
    [][\A slice \in Slices :
          (BufferSlice_get_mapped_range(slice) /\ mapping = "unmapped") => ~last'.ok]_vars

\* C19: map_async on a buffer that has an outstanding mapping is rejected
\* before buffer_map_async is forwarded, for every buffer size, 0 included,
\* and every slice.
C19_OneMappingOutstanding ==
    [][\A slice \in Slices :
          (BufferSlice_map_async(slice) /\ mapping = "mapped") =>
              (~last'.ok /\ last'.fwd = "none")]_vars

\* The range expressions a..b (a <= b), a..=b (a <= b), a.. and .. .
RangeExprs ==
    {bounds \in SliceBounds :
        \/ bounds.sk = "Included" /\ bounds.ek = "Excluded"
        \/ bounds.sk = "Included" /\ bounds.ek = "Included" /\ bounds.sv <= bounds.ev
        \/ bounds.sk = "Included" /\ bounds.ek = "Unbounded"
        \/ bounds.sk = "Unbounded" /\ bounds.ek = "Unbounded"}

\* The byte interval a range expression denotes on a buffer mapped up to
\* mapping_end.
Denoted(bounds, mapping_end) ==
    CASE bounds.sk = "Included" /\ bounds.ek = "Excluded" -> Range(bounds.sv, bounds.ev)
      [] bounds.sk = "Included" /\ bounds.ek = "Included" -> Range(bounds.sv, bounds.ev + 1)
      [] bounds.sk = "Included" /\ bounds.ek = "Unbounded" -> Range(bounds.sv, mapping_end)
      [] bounds.sk = "Unbounded" /\ bounds.ek = "Unbounded" -> Range(0, mapping_end)

\* The interval lies inside the outstanding mapping range.
WithinMapping(r, m) ==
    m.initial_range.start <= r.start /\ r.start <= r.end /\ r.end <= m.initial_range.end

\* C20: for a range expression that denotes an interval inside the mapping,
\* the interval resolved from the (offset, size) Buffer::slice makes of it
\* is the interval the expression denotes: a..b gives [a,b), empty when
\* a = b, a..=b gives [a,b+1), a.. gives [a, end of mapping), .. gives
\* [0, end of mapping).
C20_SliceDenotesRange ==
    [][\A bounds \in RangeExprs :
          (/\ BufferSlice_get_mapped_range(Buffer_slice(bounds))
           /\ WithinMapping(Denoted(bounds, mc.initial_range.end), mc)
           /\ last'.ok) =>
              mc'.sub_ranges[Len(mc'.sub_ranges)] = Denoted(bounds, mc.initial_range.end)]_vars


\* C21: for get_mapped_range / get_mapped_range_mut, unmap and map_async, a
\* call that the MapContext check rejects forwards no backend operation.
C21_NoForwardAfterRejection ==
    [][ /\ last'.op = "get_mapped_range" =>
              \A slice \in Slices :
                  LET r == MapContext_add(mc, slice.offset, slice.size)
                  IN  (~r.ok /\ mc' = r.mc /\ views' = views) => last'.fwd = "none"
        /\ (last'.op = "unmap" /\ ~MapContext_reset(mc).ok) => last'.fwd = "none"
        /\ (last'.op = "map_async" /\ ~map_async_check(mc)) => last'.fwd = "none" ]_vars

\* A rejected map_async: the buffer was already mapped.
C21_Witness ==
    /\ last.op = "map_async"
    /\ ~last.ok
    /\ last.fwd = "none"
    /\ mc.initial_range # ZeroRange

\* C22: queue_submit receives the handles of the CommandBuffers given to
\* Queue::submit in the order the caller's collection yields them, each once,
\* none omitted and none added.
C22_SubmitInOrder ==
    [][\A cbs \in Submissions :
          (Queue_submit(cbs) /\ enc_fwd'.op = "queue_submit")
          => /\ Len(enc_fwd'.ids) = Len(cbs)
             /\ \A i \in DOMAIN cbs : enc_fwd'.ids[i] = cbs[i]]_vars

\* Two command buffers were submitted in one call, the later-created first.
C22_Witness ==
    /\ enc_fwd.op = "queue_submit"
    /\ Len(enc_fwd.ids) = 2
    /\ enc_fwd.ids[1] > enc_fwd.ids[2]

\* C25: a CommandBuffer destroyed outside unwinding has had its handle passed
\* to exactly one of queue_submit and command_buffer_drop, and to it once;
\* nothing is forwarded for it afterwards, and the unwrap in Queue::submit
\* never fails.
C25_SubmitOrDrop ==
    [][ /\ \A c \in Encoders :
              (CommandBuffer_drop(c) /\ ~panicking)
              => backend'[c].submit = 0 /\ backend'[c].drop = 1
        /\ \A cbs \in Submissions :
              Queue_submit(cbs)
              => /\ enc_fwd'.op = "queue_submit"
                 /\ \A i \in DOMAIN cbs :
                       /\ cmdbuf[cbs[i]].id = "Some"
                       /\ backend'[cbs[i]].submit = 1
                       /\ backend'[cbs[i]].drop = 0
        /\ \A c \in Encoders :
              cmdbuf[c].state \in {"submitted", "dropped"}
              => backend'[c] = backend[c] ]_vars

\* One command buffer went to queue_submit and the other to
\* command_buffer_drop.
C25_Witness ==
    \E c, d \in Encoders :
        /\ cmdbuf[c].state = "submitted"
        /\ backend[c].submit = 1 /\ backend[c].drop = 0
        /\ cmdbuf[d].state = "dropped"
        /\ backend[d].submit = 0 /\ backend[d].drop = 1

\* C23: while any wrapper derived from the Instance exists, Surface
\* included, the backend instance is alive: some Arc to it is still held,
\* also after the Instance wrapper itself was dropped.
C23_BackendOutlivesWrappers ==
    \A o \in Holders : holder[o].state = "alive" => strong > 0

\* C24: a view's drop calls remove with the offset and size its add was
\* accepted with; whatever tracker operations happened in between, the
\* remove is accepted.
C24_RemoveAfterAdd ==
    [][\A slice \in BagToSet(views) : BufferView_drop(slice) => last'.ok]_vars

\* C26: when get_current_frame returns Err (Timeout, Outdated or Lost), no
\* swap_chain_present is forwarded for that acquisition, whatever optional
\* view came with the status.
C26_NoPresentOnErr ==
    [][\A s \in SwapChains, v \in BOOLEAN, st \in Statuses :
          ( /\ SwapChain_get_current_frame(s, [view |-> v, status |-> st])
            /\ sc_last'.result = "Err" )
          => ~sc_last'.presented]_vars

\* C27: after a map_async whose future resolved to Err(BufferAsyncError),
\* and before any unmap, the tracker has no outstanding mapping range:
\* get_mapped_range is rejected and a new map_async is accepted.
C27_UnmappedAfterFailure ==
    [][mapping = "failed" =>
          /\ mc.initial_range = ZeroRange
          /\ \A slice \in Slices :
                BufferSlice_get_mapped_range(slice) => ~last'.ok
          /\ \A slice \in Slices :
                BufferSlice_map_async(slice) => last'.ok]_vars

\* C28: for an unmap by one thread and a map_async of another thread that
\* was accepted after it in MapContext lock order, the backend receives
\* buffer_unmap before that buffer_map_async.
C28_BackendSeesLockOrder ==
    \A i, j \in DOMAIN locklog :
        ( /\ i < j
          /\ locklog[i].op = "unmap" /\ locklog[j].op = "map_async"
          /\ locklog[i].thread # locklog[j].thread )
        => \A b \in DOMAIN blog :
               blog[b].ticket = j => \E a \in 1..(b - 1) : blog[a].ticket = i

\* C29: a read through a BufferViewMut (Deref) is accepted if and only if
\* the buffer's declared usage contains MAP_READ; a write through it
\* (DerefMut) is always accepted; the readable flag of a view does not change
\* while the view lives.
C29_ReadIffMapRead ==
    [][ /\ \A v \in ViewIds :
              BufferViewMut_deref(v) => (last'.ok <=> "MAP_READ" \in usage)
        /\ \A v \in ViewIds : BufferViewMut_deref_mut(v) => last'.ok
        /\ \A v \in ViewIds :
              (vmut[v].state = "alive" /\ vmut'[v].state = "alive")
              => vmut'[v].readable = vmut[v].readable
        /\ usage' = usage ]_vars

\* A read through a live view of a buffer declared with MAP_WRITE and
\* without MAP_READ was rejected.
C29_Witness ==
    /\ last.op = "deref" /\ ~last.ok
    /\ "MAP_READ" \notin usage /\ "MAP_WRITE" \in usage
    /\ \E v \in ViewIds : vmut[v].state = "alive" /\ ~vmut[v].readable

\* A sized request whose offset + size does not fit the address width: the
\* slice of a reversed range a..b with b < a is one.
Wrapped(slice) == slice.size # None /\ slice.offset + slice.size >= Modulus

\* C30: with the address arithmetic wrapping, a request whose offset + size
\* wraps around is accepted neither by add nor by map_async, so no sub-range
\* and no mapping range with start > end is registered for it.
C30_NoWrappedRange ==
    [][\A slice \in WrapSlices :
          Wrapped(slice) =>
              /\ BufferSlice_get_mapped_range(slice) => ~last'.ok
              /\ BufferSlice_map_async(slice) => ~last'.ok]_vars
====
